---- MODULE Spec2Model ----
(***************************************************************************)
(* Model of cashier.telegram_bot: the /pair command handler, the flight    *)
(* watcher with its per-flight process_flight tasks, the event loop's      *)
(* exception handler, and the Mongo collections they share.                *)
(*                                                                         *)
(* One action is one run of a coroutine between two suspension points      *)
(* (await), which asyncio executes atomically.  A store operation that is  *)
(* awaited takes effect in the step that resumes the coroutine.  A store   *)
(* operation that is called but not awaited (Motor hands it to the thread  *)
(* pool at once) and a task made with asyncio.create_task stay pending and *)
(* take effect in a later step of their own, in any order.                 *)
(***************************************************************************)
EXTENDS Naturals, Integers, Sequences, FiniteSets

\* ------------------------------------------------------------------ bounds
\* handler invocations and process_flight tasks created in one run
MaxTasks == 3

\* ------------------------------------------------------------- value sets
Types == {"daily", "yearly"}
Pilots == {"p1", "p2"}
TransIds == {"1", "2"}
Today == <<2024, 1>>

\* str.isnumeric() on the transaction ids the model can type
isnumeric(s) == s \in {"1", "2"}

\* Pilot.load_id: the usernames the pilot directory resolves, with their ids
PilotDirectory == [u \in Pilots |-> IF u = "p1" THEN 101 ELSE 102]

\* date.isoformat(), date.year and None as stored in "used_for": a string,
\* an integer and null never compare equal in a Mongo filter
None == <<"none", 0, 0>>
isoformat(d) == <<"str", d[1], d[2]>>
year(d) == <<"int", d[1], 0>>

\* The flights XContest can deliver: id, pilot username, date of the flight
FlightIds == {1, 2, 3}
FlightPilot == [f \in FlightIds |-> "p1"]
FlightDate == [f \in FlightIds |-> IF f = 3 THEN <<2025, 1>> ELSE <<2024, 1>>]

\* ----------------------------------------------------------------- state
VARIABLES
    membership,   \* db.membership: set of documents
    flights,      \* db.flights: set of documents
    ptasks,       \* the pair handler invocations, in order of arrival
    ftasks,       \* the process_flight tasks, in order of creation
    loop,         \* "running", "shutdown" (all tasks cancelled), "closed"
    transactions, \* db.transactions: set of documents
    ttasks        \* the process_transaction tasks, in order of creation

vars == <<membership, flights, ptasks, ftasks, loop, transactions, ttasks>>

NoDoc == [_id |-> 0, transaction_id |-> "", type |-> "", pilot |-> [username |-> "", id |-> 0],
          date_paired |-> <<"none", 0, 0>>, used_for |-> None]
NoReply == [kind |-> "none", type |-> "", username |-> ""]

\* ------------------------------------------------------- store primitives
\* mutant: the membership collection has no unique index
MembershipIndexMissing(coll, doc) == TRUE

\* mutant: the flights collection has no unique index
FlightsIndexMissing(coll, doc) == TRUE

\* setup_mongo_indices: unique index on membership.transaction_id
MembershipIndexAllows(coll, doc) ==
    \A m \in coll : m.transaction_id # doc.transaction_id

\* setup_mongo_indices: unique index on flights.id
FlightsIndexAllows(coll, doc) ==
    \A d \in coll : d.id # doc.id

\* Flight.as_dict(): the document stored for a new flight
FlightAsDict(f, oid) ==
    [_id |-> oid, id |-> f, pilot |-> FlightPilot[f], date |-> FlightDate[f], processed |-> FALSE]

\* mutant: the filter accepts only memberships not used yet
MatchesUnusedOnly(m, f) ==
    /\ m.pilot.username = FlightPilot[f]
    /\ m.used_for = None

\* the filter of membership.find_one in process_flight
MatchesFlight(m, f) ==
    /\ m.pilot.username = FlightPilot[f]
    /\ \/ m.type = "daily" /\ m.used_for = isoformat(FlightDate[f])
       \/ m.type = "yearly" /\ m.used_for = year(FlightDate[f])
       \/ m.used_for = None

\* the value process_flight writes into used_for for a matched membership
UsedForValue(m, f) ==
    IF m.type = "yearly" THEN year(FlightDate[f]) ELSE isoformat(FlightDate[f])

\* -------------------------------------------------------------- messages
AnswerError(reason) == [kind |-> "error", type |-> reason, username |-> ""]
AnswerAlreadyPaired(existing) ==
    [kind |-> "already_paired", type |-> existing.type, username |-> existing.pilot.username]
AnswerPaired == [kind |-> "paired", type |-> "", username |-> ""]

\* ------------------------------------------------------------------ pair
\* message.text.strip().split(" ") of the commands an operator can send
PairCommands ==
    {<<"/pair", "1", "daily", "p1">>, <<"/pair", "1", "yearly", "p2">>,
     <<"/pair", "2", "yearly", "p1">>}

\* commands that fail one or more of the checks of _parse_pair_msg
InvalidCommands ==
    {<<"/pair", "x", "weekly">>, <<"/pair", "x", "weekly", "ghost">>,
     <<"/pair", "1", "weekly", "ghost">>, <<"/pair", "1", "daily", "ghost">>}

\* f"Expected 3 arguments, got {len(parts) - 1}"
ExpectedArguments(parts) ==
    IF Len(parts) = 3 THEN "Expected 3 arguments, got 2" ELSE "Expected 3 arguments, got other"

\* mutant: the membership type is parsed before the transaction id is checked
ParseErrorTypeFirst(parts) ==
    IF Len(parts) # 4 THEN ExpectedArguments(parts)
    ELSE IF parts[3] \notin Types THEN "invalid membership type"
    ELSE IF ~isnumeric(parts[2]) THEN "Transaction ID must be numeric"
    ELSE ""

\* the synchronous checks of _parse_pair_msg, in the order of the code
ParseError(parts) ==
    IF Len(parts) # 4 THEN ExpectedArguments(parts)
    ELSE IF ~isnumeric(parts[2]) THEN "Transaction ID must be numeric"
    ELSE IF parts[3] \notin Types THEN "invalid membership type"
    ELSE ""

NewPairTask(parts) ==
    [cmd |-> parts,
     pc |-> IF ParseError(parts) = "" THEN "load_id" ELSE "answer",
     answer |-> IF ParseError(parts) = "" THEN NoReply ELSE AnswerError(ParseError(parts)),
     sent |-> FALSE,
     exc |-> "",
     paired_before |-> \E m \in membership : m.transaction_id = parts[2]]

\* the ObjectId the driver generates for the document of the i-th insert_one
PairOid(i) == i
FlightOid(i) == 100 + i

\* mutant: pair stores the membership as used on the day of the pairing
NewMembershipUsed(parts, oid) ==
    [_id |-> oid, transaction_id |-> parts[2], type |-> parts[3],
     pilot |-> [username |-> parts[4], id |-> PilotDirectory[parts[4]]],
     date_paired |-> isoformat(Today), used_for |-> isoformat(Today)]

\* the document pair inserts
NewMembership(parts, oid) ==
    [_id |-> oid, transaction_id |-> parts[2], type |-> parts[3],
     pilot |-> [username |-> parts[4], id |-> PilotDirectory[parts[4]]],
     date_paired |-> isoformat(Today), used_for |-> None]

\* the dispatcher calls the handler: it runs up to its first await
PairStart(parts) ==
    /\ loop = "running"
    /\ Len(ptasks) + Len(ftasks) + Len(ttasks) < MaxTasks
    /\ ptasks' = Append(ptasks, NewPairTask(parts))
    /\ UNCHANGED <<membership, flights, ftasks, loop, transactions, ttasks>>

\* await pilot.load_id(session) returns or raises; then find_one is called
PairLoadId(i) ==
    /\ ptasks[i].pc = "load_id"
    /\ ptasks' = IF ptasks[i].cmd[4] \in DOMAIN PilotDirectory
                 THEN [ptasks EXCEPT ![i].pc = "find"]
                 ELSE [ptasks EXCEPT ![i].pc = "failed", ![i].exc = "LookupError"]
    /\ UNCHANGED <<membership, flights, ftasks, loop, transactions, ttasks>>

\* mutant: pair inserts without looking for an existing membership
PairFindSkipped(i) ==
    /\ ptasks[i].pc = "find"
    /\ ptasks' = [ptasks EXCEPT ![i].pc = "insert"]
    /\ UNCHANGED <<membership, flights, ftasks, loop, transactions, ttasks>>

\* await membership.find_one({"transaction_id": ...}) returns
PairFind(i) ==
    /\ ptasks[i].pc = "find"
    /\ LET hits == {m \in membership : m.transaction_id = ptasks[i].cmd[2]} IN
       \/ /\ hits # {}
          /\ \E existing \in hits :
               ptasks' = [ptasks EXCEPT ![i].pc = "answer",
                                        ![i].answer = AnswerAlreadyPaired(existing)]
       \/ /\ hits = {}
          /\ ptasks' = [ptasks EXCEPT ![i].pc = "insert"]
    /\ UNCHANGED <<membership, flights, ftasks, loop, transactions, ttasks>>

\* await membership.insert_one(...) returns or raises DuplicateKeyError
PairInsert(i) ==
    /\ ptasks[i].pc = "insert"
    /\ LET doc == NewMembership(ptasks[i].cmd, PairOid(i)) IN
       \/ /\ MembershipIndexAllows(membership, doc)
          /\ membership' = membership \cup {doc}
          /\ ptasks' = [ptasks EXCEPT ![i].pc = "answer", ![i].answer = AnswerPaired]
       \/ /\ ~MembershipIndexAllows(membership, doc)
          /\ ptasks' = [ptasks EXCEPT ![i].pc = "failed", ![i].exc = "DuplicateKeyError"]
          /\ UNCHANGED membership
    /\ UNCHANGED <<flights, ftasks, loop, transactions, ttasks>>

\* await message.answer(...) returns
PairAnswer(i) ==
    /\ ptasks[i].pc = "answer"
    /\ ptasks' = [ptasks EXCEPT ![i].pc = "done", ![i].sent = TRUE]
    /\ UNCHANGED <<membership, flights, ftasks, loop, transactions, ttasks>>

\* -------------------------------------------------------- process_flight
NewFlightTask(f) ==
    [flight |-> f, pc |-> "find_flight", found |-> NoDoc,
     used_for |-> "none", processed |-> "none", alert |-> "none", exc |-> "",
     redelivery |-> \E d \in flights : d.id = f /\ d.processed,
     unusable |-> FALSE,
     \* history: this run was cancelled with its alert and its processed write
     \* both outstanding; this run started after such a run, or after one
     \* cancelled earlier, for the same flight
     abandoned |-> FALSE,
     resumed |-> \E k \in DOMAIN ftasks :
                    /\ ftasks[k].flight = f
                    /\ ftasks[k].pc = "cancelled" \/ ftasks[k].abandoned]

\* watch_flights: asyncio.create_task(process_flight(flight)) for a flight of
\* the download; the window of FLIGHT_WATCH_DAYS_BACK days delivers a flight
\* again on later runs
WatchFlights(f) ==
    /\ loop = "running"
    /\ Len(ptasks) + Len(ftasks) + Len(ttasks) < MaxTasks
    /\ ftasks' = Append(ftasks, NewFlightTask(f))
    /\ UNCHANGED <<membership, flights, ptasks, loop, transactions, ttasks>>

\* mutant: the processed flag of the stored flight is not looked at
AfterExistingUnguarded(existing_flight) == "find_membership"

\* elif existing_flight["processed"]: return; otherwise go on to the match
AfterExisting(existing_flight) ==
    IF existing_flight.processed THEN "done" ELSE "find_membership"

\* await flights.find_one({"id": flight.id}) returns
FlightFind(i) ==
    /\ ftasks[i].pc = "find_flight"
    /\ LET hits == {d \in flights : d.id = ftasks[i].flight} IN
       \/ /\ hits = {}
          /\ ftasks' = [ftasks EXCEPT ![i].pc = "insert_flight"]
       \/ \E existing_flight \in hits :
            ftasks' = [ftasks EXCEPT ![i].pc = AfterExisting(existing_flight)]
    /\ UNCHANGED <<membership, flights, ptasks, loop, transactions, ttasks>>

\* await flights.insert_one(flight.as_dict()) returns or raises DuplicateKeyError
FlightInsert(i) ==
    /\ ftasks[i].pc = "insert_flight"
    /\ LET doc == FlightAsDict(ftasks[i].flight, FlightOid(i)) IN
       \/ /\ FlightsIndexAllows(flights, doc)
          /\ flights' = flights \cup {doc}
          /\ ftasks' = [ftasks EXCEPT ![i].pc = "find_membership"]
       \/ /\ ~FlightsIndexAllows(flights, doc)
          /\ ftasks' = [ftasks EXCEPT ![i].pc = "failed", ![i].exc = "DuplicateKeyError"]
          /\ UNCHANGED flights
    /\ UNCHANGED <<membership, ptasks, loop, transactions, ttasks>>

\* await membership.find_one({...}) returns and the coroutine runs to its end
\* without another await: it creates the alert task or calls update_one on the
\* membership, then calls update_one on the flight, awaiting neither
FlightMatch(i) ==
    /\ ftasks[i].pc = "find_membership"
    /\ LET hits == {m \in membership : MatchesFlight(m, ftasks[i].flight)} IN
       \/ /\ hits = {}
          /\ ftasks' = [ftasks EXCEPT ![i].pc = "done", ![i].alert = "pending",
                                      ![i].processed = "pending",
                                      ![i].unusable = (membership # {})]
       \/ \E m \in hits :
            ftasks' = [ftasks EXCEPT ![i].pc = "done", ![i].found = m,
                                     ![i].used_for = IF m.type \in {"yearly", "daily"}
                                                     THEN "pending" ELSE "none",
                                     ![i].processed = "pending"]
    /\ UNCHANGED <<membership, flights, ptasks, loop, transactions, ttasks>>

\* mutant: the update filters on nothing, so it rewrites every membership
ApplyUsedForAll(i) ==
    /\ ftasks[i].used_for = "pending"
    /\ membership' = {[m EXCEPT !.used_for = UsedForValue(ftasks[i].found, ftasks[i].flight)]
                        : m \in membership}
    /\ ftasks' = [ftasks EXCEPT ![i].used_for = "applied"]
    /\ UNCHANGED <<flights, ptasks, loop, transactions, ttasks>>

\* the thread pool runs membership.update_one({"_id": ...}, {"$set": {"used_for": ...}})
ApplyUsedFor(i) ==
    /\ ftasks[i].used_for = "pending"
    /\ membership' = {IF m._id = ftasks[i].found._id
                      THEN [m EXCEPT !.used_for = UsedForValue(ftasks[i].found, ftasks[i].flight)]
                      ELSE m : m \in membership}
    /\ ftasks' = [ftasks EXCEPT ![i].used_for = "applied"]
    /\ UNCHANGED <<flights, ptasks, loop, transactions, ttasks>>

\* the thread pool runs flights.update_one({"id": ...}, {"$set": {"processed": True}})
ApplyProcessed(i) ==
    /\ ftasks[i].processed = "pending"
    /\ \E d \in flights :
         /\ d.id = ftasks[i].flight
         /\ flights' = (flights \ {d}) \cup {[d EXCEPT !.processed = TRUE]}
    /\ ftasks' = [ftasks EXCEPT ![i].processed = "applied"]
    /\ UNCHANGED <<membership, ptasks, loop, transactions, ttasks>>

\* the task of bot.send_message(CHAT_ID, offending_flight_msg(flight)) runs
SendAlert(i) ==
    /\ ftasks[i].alert = "pending"
    /\ ftasks' = [ftasks EXCEPT ![i].alert = "sent"]
    /\ UNCHANGED <<membership, flights, ptasks, loop, transactions, ttasks>>

\* -------------------------------------------------------- handle_exception
\* task.cancel() on a task of asyncio.all_tasks(): a coroutine waiting for a
\* read or a reply ends; one waiting for an insert ends too, but the thread
\* pool already holds the insert
CancelPair(t) ==
    IF t.pc \in {"load_id", "find", "answer"} THEN [t EXCEPT !.pc = "cancelled"]
    ELSE IF t.pc = "insert" THEN [t EXCEPT !.pc = "orphan_insert"]
    ELSE t

\* mutant: the handler only logs
CancelFlightSkipped(t) == t

CancelFlight(t) ==
    LET u == IF t.alert = "pending"
             THEN [t EXCEPT !.alert = "cancelled", !.abandoned = (t.processed = "pending")]
             ELSE t IN
    IF u.pc \in {"find_flight", "find_membership"} THEN [u EXCEPT !.pc = "cancelled"]
    ELSE IF u.pc = "insert_flight" THEN [u EXCEPT !.pc = "orphan_insert"]
    ELSE u

\* a process_transaction task waiting for the store write or for send_message
CancelTrans(t) ==
    IF t.pc = "notify" THEN [t EXCEPT !.pc = "cancelled"]
    ELSE IF t.pc = "store" THEN [t EXCEPT !.pc = "orphan_store"]
    ELSE t

\* the loop reports the exception of a task nobody awaited
HandleException ==
    /\ \E k \in {"pair", "flight", "transaction"} :
       \E i \in (IF k = "pair" THEN DOMAIN ptasks
                 ELSE IF k = "flight" THEN DOMAIN ftasks ELSE DOMAIN ttasks) :
         /\ (IF k = "pair" THEN ptasks[i].pc
             ELSE IF k = "flight" THEN ftasks[i].pc ELSE ttasks[i].pc) = "failed"
         /\ \/ /\ loop = "closed"
               /\ ptasks' = IF k = "pair" THEN [ptasks EXCEPT ![i].pc = "reported"] ELSE ptasks
               /\ ftasks' = IF k = "flight" THEN [ftasks EXCEPT ![i].pc = "reported"] ELSE ftasks
               /\ ttasks' = IF k = "transaction" THEN [ttasks EXCEPT ![i].pc = "reported"]
                            ELSE ttasks
               /\ UNCHANGED loop
            \/ /\ loop # "closed"
               /\ ptasks' = [j \in DOMAIN ptasks |->
                                IF k = "pair" /\ j = i THEN [ptasks[j] EXCEPT !.pc = "reported"]
                                ELSE CancelPair(ptasks[j])]
               /\ ftasks' = [j \in DOMAIN ftasks |->
                                IF k = "flight" /\ j = i THEN [ftasks[j] EXCEPT !.pc = "reported"]
                                ELSE CancelFlight(ftasks[j])]
               /\ ttasks' = [j \in DOMAIN ttasks |->
                                IF k = "transaction" /\ j = i
                                THEN [ttasks[j] EXCEPT !.pc = "reported"]
                                ELSE CancelTrans(ttasks[j])]
               /\ loop' = "shutdown"
    /\ UNCHANGED <<membership, flights, transactions>>

\* main is among the cancelled tasks: the run ends and the loop is closed
CloseLoop ==
    /\ loop = "shutdown"
    /\ loop' = "closed"
    /\ UNCHANGED <<membership, flights, ptasks, ftasks, transactions, ttasks>>

\* the insert a cancelled coroutine left in the thread pool runs
PairOrphanInsert(i) ==
    /\ ptasks[i].pc = "orphan_insert"
    /\ LET doc == NewMembership(ptasks[i].cmd, PairOid(i)) IN
       membership' = IF MembershipIndexAllows(membership, doc)
                     THEN membership \cup {doc} ELSE membership
    /\ ptasks' = [ptasks EXCEPT ![i].pc = "cancelled"]
    /\ UNCHANGED <<flights, ftasks, loop, transactions, ttasks>>

FlightOrphanInsert(i) ==
    /\ ftasks[i].pc = "orphan_insert"
    /\ LET doc == FlightAsDict(ftasks[i].flight, FlightOid(i)) IN
       flights' = IF FlightsIndexAllows(flights, doc)
                  THEN flights \cup {doc} ELSE flights
    /\ ftasks' = [ftasks EXCEPT ![i].pc = "cancelled"]
    /\ UNCHANGED <<membership, ptasks, loop, transactions, ttasks>>

\* ------------------------------------------------------ process_transaction
\* the transactions the bank account can deliver, and the amount of each
BankTransactions == {"1", "2", "3"}
TransAmount == [t \in BankTransactions |-> IF t = "1" THEN 100 ELSE IF t = "2" THEN 1000 ELSE 55]

\* Membership.from_amount: the fixed amount -> type table; raises ValueError
\* for an amount that is not in it
from_amount(amount) ==
    IF amount = 100 THEN "daily" ELSE IF amount = 1000 THEN "yearly" ELSE "ValueError"

\* mutant: from_amount called without the try / except
ClassifyUnguarded(amount) == from_amount(amount)

\* try: Membership.from_amount(trans.amount)  except ValueError: None
Classify(amount) ==
    IF from_amount(amount) = "ValueError" THEN "unclassified" ELSE from_amount(amount)

\* unique index on transactions.id
TransIndexAllows(coll, doc) == \A d \in coll : d.id # doc.id

TransDoc(t) == [id |-> t, amount |-> TransAmount[t]]

\* TransactionStorage.store_transaction: inserts the transaction; a conflict on
\* the unique index is swallowed
store_transaction(coll, doc) ==
    IF TransIndexAllows(coll, doc) THEN coll \cup {doc} ELSE coll

NewTransTask(t) ==
    [trans |-> t, pc |-> "store", stored |-> "none", msg |-> "none",
     notified |-> FALSE, exc |-> ""]

\* watch_transactions: one task per transaction the storage reports as new
WatchTransactions(t) ==
    /\ loop = "running"
    /\ Len(ptasks) + Len(ftasks) + Len(ttasks) < MaxTasks
    /\ ttasks' = Append(ttasks, NewTransTask(t))
    /\ UNCHANGED <<membership, flights, ptasks, ftasks, loop, transactions>>

\* mutant: the failure of the store write is not propagated
AfterStoreIgnoringFailure(t, result) ==
    [t EXCEPT !.pc = "notify", !.stored = result, !.msg = Classify(TransAmount[t.trans])]

\* what follows the store write: classification and the message, up to the
\* await of send_message
AfterStore(t, result) ==
    IF result = "error" THEN [t EXCEPT !.pc = "failed", !.stored = "error", !.exc = "PersistenceError"]
    ELSE IF Classify(TransAmount[t.trans]) = "ValueError"
         THEN [t EXCEPT !.pc = "failed", !.stored = result, !.exc = "ValueError"]
         ELSE [t EXCEPT !.pc = "notify", !.stored = result,
                        !.msg = Classify(TransAmount[t.trans])]

\* await trans_storage.store_transaction(trans), then the synchronous code up
\* to the next await; the store may also fail for a reason other than a conflict
StoreTransaction(i) ==
    /\ loop = "running"
    /\ ttasks[i].pc = "store"
    /\ \/ /\ transactions' = store_transaction(transactions, TransDoc(ttasks[i].trans))
          /\ ttasks' = [ttasks EXCEPT ![i] =
                AfterStore(@, IF TransIndexAllows(transactions, TransDoc(ttasks[i].trans))
                              THEN "inserted" ELSE "conflict")]
       \/ /\ transactions' = transactions
          /\ ttasks' = [ttasks EXCEPT ![i] = AfterStore(@, "error")]
    /\ UNCHANGED <<membership, flights, ptasks, ftasks, loop>>

\* await bot.send_message(CHAT_ID, msg): delivered, or the send raises
NotifyTransaction(i) ==
    /\ loop = "running"
    /\ ttasks[i].pc = "notify"
    /\ \/ ttasks' = [ttasks EXCEPT ![i].pc = "done", ![i].notified = TRUE]
       \/ ttasks' = [ttasks EXCEPT ![i].pc = "failed", ![i].exc = "NotifyError"]
    /\ UNCHANGED <<membership, flights, ptasks, ftasks, loop, transactions>>

\* the store write of a cancelled task had been handed to the driver
TransOrphanStore(i) ==
    /\ ttasks[i].pc = "orphan_store"
    /\ transactions' = store_transaction(transactions, TransDoc(ttasks[i].trans))
    /\ ttasks' = [ttasks EXCEPT ![i].pc = "cancelled"]
    /\ UNCHANGED <<membership, flights, ptasks, ftasks, loop>>

\* ---------------------------------------------------------- specification
\* main: the indices exist before any handler or watcher runs; the database
\* is empty and no task has been created
Init ==
    /\ membership = {}
    /\ flights = {}
    /\ ptasks = <<>>
    /\ ftasks = <<>>
    /\ loop = "running"
    /\ transactions = {}
    /\ ttasks = <<>>

Next ==
    \/ \E parts \in PairCommands : PairStart(parts)
    \/ \E i \in DOMAIN ptasks : PairLoadId(i)
    \/ \E i \in DOMAIN ptasks : PairFind(i)
    \/ \E i \in DOMAIN ptasks : PairInsert(i)
    \/ \E i \in DOMAIN ptasks : PairAnswer(i)
    \/ \E f \in FlightIds : WatchFlights(f)
    \/ \E i \in DOMAIN ftasks : FlightFind(i)
    \/ \E i \in DOMAIN ftasks : FlightInsert(i)
    \/ \E i \in DOMAIN ftasks : FlightMatch(i)
    \/ \E i \in DOMAIN ftasks : ApplyUsedFor(i)
    \/ \E i \in DOMAIN ftasks : ApplyProcessed(i)
    \/ \E i \in DOMAIN ftasks : SendAlert(i)
    \/ HandleException
    \/ CloseLoop
    \/ \E i \in DOMAIN ptasks : PairOrphanInsert(i)
    \/ \E i \in DOMAIN ftasks : FlightOrphanInsert(i)

Spec == Init /\ [][Next]_vars

\* the interpreter joins the thread pool before it exits, so no store
\* operation of the ended run is still outstanding
Quiescent ==
    /\ \A i \in DOMAIN ptasks : ptasks[i].pc # "orphan_insert"
    /\ \A i \in DOMAIN ftasks :
          /\ ftasks[i].pc # "orphan_insert"
          /\ ftasks[i].used_for # "pending"
          /\ ftasks[i].processed # "pending"
    /\ \A i \in DOMAIN ttasks : ttasks[i].pc # "orphan_store"

\* main is started again on the same database
Restart ==
    /\ loop = "closed"
    /\ Quiescent
    /\ loop' = "running"
    /\ UNCHANGED <<membership, flights, ptasks, ftasks, transactions, ttasks>>

NextRestart == Next \/ Restart

SpecRestart == Init /\ [][NextRestart]_vars

\* the three pipelines side by side, each with few inputs
FrameCommands == {<<"/pair", "1", "daily", "p1">>, <<"/pair", "2", "yearly", "p2">>}
FrameFlights == {1}
FrameTransactions == {"1"}

NextFrame ==
    \/ \E parts \in FrameCommands : PairStart(parts)
    \/ \E i \in DOMAIN ptasks : PairLoadId(i)
    \/ \E i \in DOMAIN ptasks : PairFind(i)
    \/ \E i \in DOMAIN ptasks : PairInsert(i)
    \/ \E i \in DOMAIN ptasks : PairAnswer(i)
    \/ \E f \in FrameFlights : WatchFlights(f)
    \/ \E i \in DOMAIN ftasks : FlightFind(i)
    \/ \E i \in DOMAIN ftasks : FlightInsert(i)
    \/ \E i \in DOMAIN ftasks : FlightMatch(i)
    \/ \E i \in DOMAIN ftasks : ApplyUsedFor(i)
    \/ \E i \in DOMAIN ftasks : ApplyProcessed(i)
    \/ \E i \in DOMAIN ftasks : SendAlert(i)
    \/ \E t \in FrameTransactions : WatchTransactions(t)
    \/ \E i \in DOMAIN ttasks : StoreTransaction(i)
    \/ \E i \in DOMAIN ttasks : NotifyTransaction(i)
    \/ HandleException
    \/ CloseLoop
    \/ \E i \in DOMAIN ptasks : PairOrphanInsert(i)
    \/ \E i \in DOMAIN ftasks : FlightOrphanInsert(i)
    \/ \E i \in DOMAIN ttasks : TransOrphanStore(i)

SpecFrame == Init /\ [][NextFrame]_vars

\* the pair handler alone, with the commands that fail validation among its inputs
NextPair ==
    \/ \E parts \in PairCommands \cup InvalidCommands : PairStart(parts)
    \/ \E i \in DOMAIN ptasks : PairLoadId(i)
    \/ \E i \in DOMAIN ptasks : PairFind(i)
    \/ \E i \in DOMAIN ptasks : PairInsert(i)
    \/ \E i \in DOMAIN ptasks : PairAnswer(i)
    \/ HandleException
    \/ CloseLoop
    \/ \E i \in DOMAIN ptasks : PairOrphanInsert(i)

SpecPair == Init /\ [][NextPair]_vars

\* the transaction pipeline alone
NextTrans ==
    \/ \E t \in BankTransactions : WatchTransactions(t)
    \/ \E i \in DOMAIN ttasks : StoreTransaction(i)
    \/ \E i \in DOMAIN ttasks : NotifyTransaction(i)
    \/ HandleException
    \/ CloseLoop
    \/ \E i \in DOMAIN ttasks : TransOrphanStore(i)

SpecTrans == Init /\ [][NextTrans]_vars

\* ================================================================ claims
SameTransaction(i, j) == ptasks[i].cmd[2] = ptasks[j].cmd[2]
OwnMembership(i) == {m \in membership : m._id = PairOid(i)}

\* C1: no two distinct memberships of the store have the same transaction_id,
\* whatever the interleaving of the pair commands
C1_UniqueTransactionId ==
    \A m1 \in membership : \A m2 \in membership :
        m1 # m2 => m1.transaction_id # m2.transaction_id

\* two pair commands for one transaction both passed the existence check; one
\* inserted and the index rejected the other
C1_Witness ==
    \E i \in DOMAIN ptasks : \E j \in DOMAIN ptasks :
        /\ i # j /\ SameTransaction(i, j)
        /\ OwnMembership(i) # {}
        /\ ptasks[j].exc = "DuplicateKeyError"

\* C2: a pair command that loses the race (its insert is rejected by the
\* unique index) reports the conflict message to its operator
C2_LoserReportsConflict ==
    \A i \in DOMAIN ptasks :
        ptasks[i].exc = "DuplicateKeyError" =>
            /\ ptasks[i].pc \in {"answer", "done"}
            /\ ptasks[i].answer.kind = "already_paired"

\* C3: of pair commands for T issued one after another, the first ends paired
\* with its membership stored; a later one never reaches the insert, answers
\* with the type and pilot username of the stored membership of T, and no
\* step of it changes the membership collection
C3_FirstOf(i) ==
    /\ ~ptasks[i].paired_before
    /\ \A j \in DOMAIN ptasks : (j # i /\ SameTransaction(i, j)) => ptasks[j].paired_before

C3_State ==
    \A i \in DOMAIN ptasks :
        /\ (C3_FirstOf(i) /\ ptasks[i].pc = "done") =>
              /\ ptasks[i].answer = AnswerPaired
              /\ NewMembership(ptasks[i].cmd, PairOid(i)) \in
                     {[m EXCEPT !.used_for = None] : m \in membership}
        /\ ptasks[i].paired_before =>
              /\ ptasks[i].pc \in {"load_id", "find", "answer", "done", "cancelled"}
              /\ OwnMembership(i) = {}
              /\ ptasks[i].pc \in {"answer", "done"} =>
                    \E m \in membership :
                        /\ m.transaction_id = ptasks[i].cmd[2]
                        /\ ptasks[i].answer = [kind |-> "already_paired", type |-> m.type,
                                               username |-> m.pilot.username]

C3_Step ==
    \A i \in DOMAIN ptasks :
        (ptasks[i].paired_before /\ ptasks'[i] # ptasks[i]) => membership' = membership

C3_SequentialPairing == [](C3_State) /\ [][C3_Step]_vars

\* a later command for T was rejected naming a type other than the one it asked for
C3_Witness ==
    \E i \in DOMAIN ptasks : \E j \in DOMAIN ptasks :
        /\ C3_FirstOf(i) /\ ptasks[i].pc = "done" /\ SameTransaction(i, j)
        /\ ptasks[j].paired_before /\ ptasks[j].pc = "done"
        /\ ptasks[j].answer.type # ptasks[j].cmd[3]

\* ------------------------------------------------------- flights: helpers
StoredProcessed(f) ==
    /\ \E d \in flights : d.id = f
    /\ \A d \in flights : d.id = f => d.processed

Stopped(pc) == pc \in {"done", "failed", "reported", "cancelled", "orphan_insert"}

\* C4: once used_for of a membership is set, no later step changes it to
\* another value
C4_Step ==
    \A m \in membership : \A n \in membership' :
        (m.used_for # None /\ n._id = m._id) => n.used_for = m.used_for

C4_UsedForSetOnce == [][C4_Step]_vars

\* C5: the processed write of a run takes effect only after the used_for
\* update or the alert of that run has taken effect
C5_ProcessedWrittenLast ==
    \A i \in DOMAIN ftasks :
        ftasks[i].processed = "applied" =>
            /\ ftasks[i].used_for # "pending"
            /\ ftasks[i].alert \in {"none", "sent"}

C7_ProcessedGuard ==
    \A i \in DOMAIN ftasks :
        ftasks[i].redelivery =>
            /\ ftasks[i].pc \in {"find_flight", "done", "cancelled"}
            /\ ftasks[i].found = NoDoc
            /\ ftasks[i].used_for = "none"
            /\ ftasks[i].processed = "none"
            /\ ftasks[i].alert = "none"
            /\ \A d \in flights : d._id # FlightOid(i)

\* a flight that was already processed was delivered again and its task returned
C7_Witness ==
    \E i \in DOMAIN ftasks : ftasks[i].redelivery /\ ftasks[i].pc = "done"

\* C8: the stored record of a flight never goes from processed = true back to
\* processed = false
C8_Step == \A f \in FlightIds : StoredProcessed(f) => StoredProcessed(f)'

C8_ProcessedMonotonic == [][C8_Step]_vars

\* two tasks of one flight ran at the same time and both wrote the flag
C8_Witness ==
    \E i \in DOMAIN ftasks : \E j \in DOMAIN ftasks :
        /\ i # j /\ ftasks[i].flight = ftasks[j].flight
        /\ ftasks[i].processed = "applied" /\ ftasks[j].processed = "applied"
        /\ StoredProcessed(ftasks[i].flight)

\* C9: while the only membership of the pilot is a daily one, unused or used
\* for the date D of the flight, the match of a flight on D finds it, creates
\* no alert and hands in the update of used_for and the processed write; the
\* update sets used_for = D; and when all tasks of the run are for flights on
\* D, it is D after every update and the flight is stored processed after
\* every processed write
C9_OnlyDaily(f) ==
    LET own == {m \in membership : m.pilot.username = FlightPilot[f]} IN
    /\ Cardinality(own) = 1
    /\ \A m \in own : m.type = "daily" /\ m.used_for \in {None, isoformat(FlightDate[f])}

C9_Step ==
    \A i \in DOMAIN ftasks :
        /\ (ftasks[i].pc = "find_membership" /\ ftasks'[i].pc = "done"
            /\ C9_OnlyDaily(ftasks[i].flight)) =>
              /\ ftasks'[i].found \in membership
              /\ ftasks'[i].alert = "none"
              /\ ftasks'[i].used_for = "pending"
              /\ ftasks'[i].processed = "pending"
        /\ (ftasks[i].used_for = "pending" /\ ftasks'[i].used_for = "applied"
            /\ ftasks[i].found.type = "daily") =>
              \E m \in membership' :
                  /\ m._id = ftasks[i].found._id
                  /\ m.used_for = isoformat(FlightDate[ftasks[i].flight])

C9_State ==
    (\A k \in DOMAIN ftasks : FlightDate[ftasks[k].flight] = <<2024, 1>>) =>
        \A i \in DOMAIN ftasks :
            /\ (ftasks[i].used_for = "applied" /\ ftasks[i].found.type = "daily") =>
                  \E m \in membership : /\ m._id = ftasks[i].found._id
                                        /\ m.used_for = isoformat(<<2024, 1>>)
            /\ ftasks[i].processed = "applied" => StoredProcessed(ftasks[i].flight)

C9_DailyMatch == [](C9_State) /\ [][C9_Step]_vars

\* flight 1 consumed the unused daily membership for D; afterwards flight 2 of
\* the same pilot and date matched the membership as used for D; no alert
C9_Witness ==
    \E i \in DOMAIN ftasks : \E j \in DOMAIN ftasks :
        /\ ftasks[i].flight = 1 /\ ftasks[j].flight = 2
        /\ ftasks[i].found.type = "daily" /\ ftasks[i].found.used_for = None
        /\ ftasks[j].found._id = ftasks[i].found._id
        /\ ftasks[j].found.used_for = isoformat(FlightDate[1])
        /\ ftasks[i].used_for = "applied" /\ ftasks[j].used_for = "applied"
        /\ ftasks[i].alert = "none" /\ ftasks[j].alert = "none"
        /\ StoredProcessed(1) /\ StoredProcessed(2)
        /\ \A m \in membership : m.used_for = isoformat(FlightDate[1])

\* C10: a run of process_flight that finds no membership for its flight and
\* hands in the processed write changes no membership and emits exactly one
\* alert: its alert is on the way or sent, never lost
C10_NoMatchAlerts ==
    \A i \in DOMAIN ftasks :
        (ftasks[i].processed # "none" /\ ftasks[i].found = NoDoc) =>
            /\ ftasks[i].used_for = "none"
            /\ ftasks[i].alert \in {"pending", "sent"}

\* C15: a pair command that ends "Okay, paired" has inserted exactly one
\* membership, with the transaction id, type and pilot of the command,
\* date_paired set and used_for null; when it is inserted, a flight of that
\* pilot on any date matches it
C15_State ==
    \A i \in DOMAIN ptasks :
        ptasks[i].answer = AnswerPaired =>
            /\ Cardinality(OwnMembership(i)) = 1
            /\ \A m \in OwnMembership(i) :
                  /\ m.transaction_id = ptasks[i].cmd[2]
                  /\ m.type = ptasks[i].cmd[3]
                  /\ m.pilot.username = ptasks[i].cmd[4]
                  /\ m.date_paired = isoformat(Today)

C15_Step ==
    \A i \in DOMAIN ptasks :
        (ptasks[i].pc = "insert" /\ ptasks'[i].answer = AnswerPaired) =>
            /\ Cardinality(membership') = Cardinality(membership) + 1
            /\ \A m \in membership' \ membership :
                  /\ m._id = PairOid(i)
                  /\ m.used_for = None
                  /\ \A f \in FlightIds :
                        FlightPilot[f] = ptasks[i].cmd[4] => MatchesFlight(m, f)

C15_PairInsertsUnused == [](C15_State) /\ [][C15_Step]_vars

\* a yearly membership paired for p1 was matched by a flight of p1 as its first use
C15_Witness ==
    \E i \in DOMAIN ptasks : \E k \in DOMAIN ftasks :
        /\ ptasks[i].pc = "done" /\ ptasks[i].answer = AnswerPaired
        /\ ptasks[i].cmd[3] = "yearly"
        /\ ftasks[k].found._id = PairOid(i) /\ ftasks[k].found.used_for = None
        /\ ftasks[k].used_for = "applied"

\* C17: two process_flight tasks of one flight that run at the same time leave
\* one record of the flight, neither ends in an error, and at most one of
\* them alerts
C17_DuplicateDelivery ==
    \A i \in DOMAIN ftasks : \A j \in DOMAIN ftasks :
        (i < j /\ ftasks[i].flight = ftasks[j].flight
         /\ ~ftasks[i].redelivery /\ ~ftasks[j].redelivery) =>
            /\ Cardinality({d \in flights : d.id = ftasks[i].flight}) <= 1
            /\ ftasks[i].exc = "" /\ ftasks[j].exc = ""
            /\ ~(ftasks[i].alert # "none" /\ ftasks[j].alert # "none")

\* C19: a membership process_flight matches is never one of another pilot, a
\* daily one used for another date or a yearly one used for another year; a
\* flight whose pilot has only such memberships changes none of them and is
\* reported by an alert
C19_Unusable(m, f) ==
    \/ m.pilot.username # FlightPilot[f]
    \/ m.type = "daily" /\ m.used_for \notin {None, isoformat(FlightDate[f])}
    \/ m.type = "yearly" /\ m.used_for \notin {None, year(FlightDate[f])}

C19_NoWrongMatch ==
    \A i \in DOMAIN ftasks :
        /\ ftasks[i].found # NoDoc => ~C19_Unusable(ftasks[i].found, ftasks[i].flight)
        /\ ftasks[i].unusable =>
              /\ ftasks[i].found = NoDoc
              /\ ftasks[i].used_for = "none"

C19_UnusableOnlyAlerts ==
    /\ C19_NoWrongMatch
    /\ \A i \in DOMAIN ftasks : ftasks[i].unusable => ftasks[i].alert \in {"pending", "sent"}

\* ------------------------------------------------- pair validation: helpers
C11_FailsArgc(parts) == Len(parts) # 4
C11_FailsNumeric(parts) == Len(parts) >= 2 /\ parts[2] \notin TransIds
C11_FailsType(parts) == Len(parts) >= 3 /\ parts[3] \notin Types
C11_FailsLookup(parts) == Len(parts) >= 4 /\ parts[4] \notin Pilots
C11_Fails(parts) ==
    C11_FailsArgc(parts) \/ C11_FailsNumeric(parts) \/ C11_FailsType(parts)
        \/ C11_FailsLookup(parts)

\* C11: a pair command that fails validation ends with a reply to its operator
\* that carries the failure reason, and has written nothing
C11_FailureReplied ==
    \A i \in DOMAIN ptasks :
        C11_Fails(ptasks[i].cmd) =>
            /\ OwnMembership(i) = {}
            /\ ptasks[i].pc \in {"load_id", "answer", "done", "cancelled"}
            /\ ptasks[i].pc \in {"answer", "done"} => ptasks[i].answer.kind = "error"

\* C12: the failure a pair command reports is that of the first failing check
\* in the order argument count, numeric transaction id, membership type,
\* pilot lookup; a command failing one of the first three never starts the lookup
C12_ValidationOrder ==
    \A i \in DOMAIN ptasks :
        LET parts == ptasks[i].cmd
            early == IF C11_FailsArgc(parts) THEN ExpectedArguments(parts)
                     ELSE IF C11_FailsNumeric(parts) THEN "Transaction ID must be numeric"
                     ELSE IF C11_FailsType(parts) THEN "invalid membership type"
                     ELSE ""
        IN /\ early # "" =>
                /\ ptasks[i].pc \in {"answer", "done", "cancelled"}
                /\ ptasks[i].answer = AnswerError(early)
                /\ ptasks[i].exc = ""
           /\ (early = "" /\ C11_FailsLookup(parts)) =>
                /\ ptasks[i].pc \in {"load_id", "failed", "reported", "cancelled"}
                /\ ptasks[i].exc \in {"", "LookupError"}
                /\ ptasks[i].pc \in {"failed", "reported"} => ptasks[i].exc = "LookupError"
                /\ ptasks[i].answer = NoReply
           /\ ~C11_Fails(parts) =>
                /\ ptasks[i].exc # "LookupError"
                /\ ptasks[i].answer.kind # "error"

\* a command with a non-numeric id, an unknown type and an unknown pilot was
\* answered, and one with only an unknown pilot failed in the lookup
C12_Witness ==
    \E i \in DOMAIN ptasks : \E j \in DOMAIN ptasks :
        /\ ptasks[i].cmd = <<"/pair", "x", "weekly", "ghost">> /\ ptasks[i].pc = "done"
        /\ ptasks[j].cmd = <<"/pair", "1", "daily", "ghost">> /\ ptasks[j].exc = "LookupError"

\* ------------------------------------------------------------ transactions
\* C13: two runs of process_transaction for the same transaction id leave one
\* stored record, neither run ends in an error caused by the other, and the
\* two runs together notify the operators at most once
C13_IdempotentTransaction ==
    /\ \A d1 \in transactions : \A d2 \in transactions : d1.id = d2.id => d1 = d2
    /\ \A i \in DOMAIN ttasks : \A j \in DOMAIN ttasks :
        (i < j /\ ttasks[i].trans = ttasks[j].trans) =>
            /\ ttasks[j].stored = "conflict" => ttasks[j].exc # "PersistenceError"
            /\ ~(ttasks[i].notified /\ ttasks[j].notified)

\* C14: a notification is sent only after the store write of its transaction
\* succeeded; a transaction whose store write failed is never notified; a
\* failed notification leaves the stored record in place
C14_State ==
    \A i \in DOMAIN ttasks :
        /\ ttasks[i].pc \in {"notify", "done"} => ttasks[i].stored \in {"inserted", "conflict"}
        /\ ttasks[i].notified =>
            /\ ttasks[i].stored \in {"inserted", "conflict"}
            /\ \E d \in transactions : d.id = ttasks[i].trans
        /\ ttasks[i].stored = "error" => (~ttasks[i].notified /\ ttasks[i].pc \in {"failed", "reported"})
        /\ ttasks[i].exc = "NotifyError" => \E d \in transactions : d.id = ttasks[i].trans
C14_Step == transactions \subseteq transactions'
C14_StoreBeforeNotify == [](C14_State) /\ [][C14_Step]_vars

\* one store write failed, and one notification failed after its store write
C14_Witness ==
    \E i \in DOMAIN ttasks : \E j \in DOMAIN ttasks :
        /\ ttasks[i].stored = "error" /\ ttasks[i].exc = "PersistenceError"
        /\ ttasks[j].stored = "inserted" /\ ttasks[j].exc = "NotifyError"

\* C16: the suggested type is the table's type for an amount in the table and
\* "unclassified" otherwise; an amount outside the table never ends the task
\* with an error, and the task goes on to send its notification
C16_Classification ==
    \A i \in DOMAIN ttasks :
        LET a == TransAmount[ttasks[i].trans] IN
        /\ ttasks[i].exc # "ValueError"
        /\ ttasks[i].stored \in {"inserted", "conflict"} =>
            /\ ttasks[i].msg = (IF a = 100 THEN "daily" ELSE IF a = 1000 THEN "yearly"
                                ELSE "unclassified")
            /\ ttasks[i].pc \in {"notify", "done", "cancelled"}
                  \/ ttasks[i].exc = "NotifyError"
        /\ ttasks[i].notified => ttasks[i].msg # "none"

\* a transaction of an unknown amount and one of a known amount were notified
C16_Witness ==
    \E i \in DOMAIN ttasks : \E j \in DOMAIN ttasks :
        /\ ttasks[i].trans = "3" /\ ttasks[i].notified /\ ttasks[i].msg = "unclassified"
        /\ ttasks[j].trans = "2" /\ ttasks[j].notified /\ ttasks[j].msg = "yearly"

\* ---------------------------------------------------------------- restart
\* C18: when a run for a flight was abandoned before its processed flag was
\* stored and a run for the same flight delivered later has ended, the flight
\* is stored as processed and, if no membership matches it, an alert for it
\* was sent
C18_RedeliveryConverges ==
    \A j \in DOMAIN ftasks :
        (/\ ftasks[j].resumed
         /\ ftasks[j].pc = "done"
         /\ ftasks[j].alert \notin {"pending", "cancelled"}
         /\ Quiescent) =>
            /\ ftasks[j].exc = ""
            /\ StoredProcessed(ftasks[j].flight)
            /\ (\A m \in membership : ~MatchesFlight(m, ftasks[j].flight)) =>
                  \E k \in DOMAIN ftasks :
                      ftasks[k].flight = ftasks[j].flight /\ ftasks[k].alert = "sent"

\* -------------------------------------------------------------------- frame
C20_Ids(coll) == {d._id : d \in coll}

\* C20: a step of process_flight changes at most one membership, only in
\* used_for and only one of the flight's pilot, keeps the set of memberships
\* and leaves transactions alone; a step of pair only adds to memberships and
\* leaves flights and transactions alone; a step of process_transaction leaves
\* memberships and flights alone
C20_Step ==
    /\ ftasks' # ftasks =>
        /\ transactions' = transactions
        /\ C20_Ids(membership') = C20_Ids(membership)
        /\ Cardinality(membership') = Cardinality(membership)
        /\ Cardinality(membership \ membership') <= 1
        /\ \A m \in membership \ membership' :
              \E i \in DOMAIN ftasks : \E n \in membership' :
                  /\ ftasks'[i] # ftasks[i]
                  /\ m.pilot.username = FlightPilot[ftasks[i].flight]
                  /\ n = [m EXCEPT !.used_for = n.used_for]
    /\ ptasks' # ptasks =>
        /\ membership \subseteq membership'
        /\ flights' = flights
        /\ transactions' = transactions
    /\ ttasks' # ttasks =>
        /\ membership' = membership
        /\ flights' = flights
    /\ membership' # membership => (ptasks' # ptasks \/ ftasks' # ftasks)
    /\ flights' # flights => ftasks' # ftasks
    /\ transactions' # transactions => ttasks' # ttasks
C20_Frame == [][C20_Step]_vars

\* a pairing, a consumption by a flight and a stored transaction have happened
\* while a membership of another pilot exists
C20_Witness ==
    /\ \E i \in DOMAIN ftasks : ftasks[i].used_for = "applied"
    /\ \E m \in membership : m.pilot.username = "p2"
    /\ \E m \in membership : m.pilot.username = "p1" /\ m.used_for # None

====
